---- MODULE Spec2Model ----
(***************************************************************************)
(* Model of djmail/template_mail.py: the language() scope guard,           *)
(* TemplateMail.make_email_object, MagicMailBuilder (facade v1) and        *)
(* MagicMailBuilderV2._email_generator (facade v2).                        *)
(*                                                                         *)
(* Python values are modelled as follows.  None is the string None below;  *)
(* a missing attribute is Absent.  A text is a TLA+ string, except the     *)
(* subject, which is a sequence of one-character strings so that           *)
(* strip/split/join can be computed.  A Python argument that may be a      *)
(* scalar or a list is a record [kind |-> "scalar" | "list", v |-> ...].   *)
(* A recipient is a record [kind |-> "str" | "obj", email, lang].          *)
(***************************************************************************)
EXTENDS Integers, Sequences, FiniteSets, TLC

VARIABLES
    active,        \* django.utils.translation: the active locale
    templates,     \* django.template.loader: the templates of the mail name
    pc,            \* per call of make_email_object: position in the code
    cls,           \* per call: class of the TemplateMail instance
    context,       \* per caller: the context dict handed to the call
    to,            \* per call: local 'to' of make_email_object
    lang,          \* per call: local 'lang' of make_email_object
    old_language,  \* per call: local 'old_language' of language()
    subject,       \* per call: local 'subject'
    body_html,     \* per call: local 'body_html'
    body_txt,      \* per call: local 'body_txt'
    exc,           \* per call: exception in flight / raised
    email,         \* per call: the message returned
    bpc,           \* builder call: position in the code
    b_to,          \* builder call: local 'to'
    b_lang,        \* builder call: local 'lang'
    counter,       \* _email_generator: local 'counter'
    to_by_lang,    \* _email_generator: local 'to_by_lang'
    email_by_lang, \* _email_generator: local 'email_by_lang'
    iterated,      \* _email_generator: keys already yielded by to_by_lang.items()
    b_exc,         \* builder call: exception raised to the caller
    b_email,       \* facade v1: the message returned
    args0,         \* the arguments (to, lang) of the builder call
    locale0,       \* history: the locale active before the first call
    context0,      \* history: the caller's context before the builder call
    overlap        \* history: two language() scopes have overlapped in time

meoVars == <<pc, cls, to, lang, old_language, subject, body_html, body_txt, exc, email>>
builderVars == <<bpc, b_to, b_lang, counter, to_by_lang, email_by_lang, iterated, b_exc, b_email>>
histVars == <<args0, locale0, context0, overlap>>
vars == <<active, templates, context, meoVars, builderVars, histVars>>

----------------------------------------------------------------------------
(* Bounds *)
MaxSubjectLen == 4
MaxTo == 3
MaxV1To == 2

(* Values *)
None == "<None>"
Absent == "<absent>"
LANGUAGE_CODE == "en"
PRIORITY_STANDARD == "PRIORITY_STANDARD"
Threads == {1, 2}
Whitespace == {" ", "\t", "\n"}
Chars == {"a", "b"} \cup Whitespace

Scalar(x) == [kind |-> "scalar", v |-> x]
List(xs) == [kind |-> "list", v |-> xs]

NoEmail == [cls |-> None]
Falsy(x) == x = None \/ x = ""

----------------------------------------------------------------------------
(* str.strip(), str.split() and str.join() on sequences of characters *)

RECURSIVE lstrip(_)
lstrip(s) ==
    IF s # <<>> /\ Head(s) \in Whitespace THEN lstrip(Tail(s)) ELSE s

RECURSIVE rstrip(_)
rstrip(s) ==
    IF s # <<>> /\ s[Len(s)] \in Whitespace
    THEN rstrip(SubSeq(s, 1, Len(s) - 1)) ELSE s

strip(s) == rstrip(lstrip(s))

RECURSIVE split_scan(_, _, _)
split_scan(words, cur, rest) ==
    LET flushed == IF cur = <<>> THEN words ELSE Append(words, cur)
    IN  IF rest = <<>> THEN flushed
        ELSE IF Head(rest) \in Whitespace
             THEN split_scan(flushed, <<>>, Tail(rest))
             ELSE split_scan(words, Append(cur, Head(rest)), Tail(rest))

split(s) == split_scan(<<>>, <<>>, s)

RECURSIVE join(_, _)
join(sep, words) ==
    IF words = <<>> THEN <<>>
    ELSE IF Len(words) = 1 THEN words[1]
    ELSE words[1] \o sep \o join(sep, Tail(words))

\* a normalization that only strips the ends
normalize_subject_mut(s) == strip(s)

\* line 84: ' '.join(subject.strip().split())
normalize_subject(s) == join(<<" ">>, split(strip(s)))

----------------------------------------------------------------------------
(* The templates of a mail name: each is missing, broken (rendering it     *)
(* raises something other than TemplateDoesNotExist) or renders to 'out'.  *)

Template(state, out) == [state |-> state, out |-> out]
SubjectTexts(n) == UNION {[1..k -> Chars] : k \in 0..n}
MainSubjects == {<<>>, <<"a">>, <<" ", "a", "\n", "\t", "b", " ">>}
SubjectTemplates(texts) ==
    {Template("missing", <<>>), Template("broken", <<>>)}
        \cup {Template("ok", s) : s \in texts}
BodyTemplates(texts) ==
    {Template("missing", ""), Template("broken", "")}
        \cup {Template("ok", s) : s \in texts}
HtmlTexts == {"", "<p>hi</p>"}
TxtTexts == {"", "hi"}

\* premailer.transform: CSS rules become style attributes
premailer_transform(html) == IF html = "<p>hi</p>" THEN "<p style>hi</p>" ELSE html

\* dict.get(key, default)
dict_get(d, key, default) == IF key \in DOMAIN d THEN d[key] ELSE default
\* dict.pop(key, None) as a statement
dict_pop(d, key) == [k \in DOMAIN d \ {key} |-> d[k]]
\* d[key] = value
dict_set(d, key, value) == [k \in DOMAIN d \cup {key} |-> IF k = key THEN value ELSE d[k]]

----------------------------------------------------------------------------
(* TemplateMail.make_email_object, one action per statement that reads or  *)
(* writes shared state                                                     *)

\* lines 86-90: entry, 'to' made a list, the language resolved
make_email_object(t, klass, to_arg) ==
    /\ pc[t] = "idle"
    /\ cls' = [cls EXCEPT ![t] = klass]
    /\ to' = [to EXCEPT ![t] = IF to_arg.kind = "list" THEN to_arg.v ELSE <<to_arg.v>>]
    /\ lang' = [lang EXCEPT ![t] =
                  LET l == dict_get(context[t], "lang", None)
                  IN  IF Falsy(l) THEN LANGUAGE_CODE ELSE l]
    /\ pc' = [pc EXCEPT ![t] = "get_language"]
    /\ UNCHANGED <<active, templates, context, old_language, subject,
                   body_html, body_txt, exc, email>>

\* line 38: old_language = translation.get_language()
language_get(t) ==
    /\ pc[t] = "get_language"
    /\ old_language' = [old_language EXCEPT ![t] = active]
    /\ pc' = [pc EXCEPT ![t] = "activate"]
    /\ UNCHANGED <<active, templates, context, cls, to, lang, subject,
                   body_html, body_txt, exc, email>>

\* an activation of the default language whatever was asked for
language_activate_mut(t) ==
    /\ pc[t] = "activate"
    /\ active' = LANGUAGE_CODE
    /\ pc' = [pc EXCEPT ![t] = "subject"]
    /\ UNCHANGED <<templates, context, cls, to, lang, old_language, subject,
                   body_html, body_txt, exc, email>>

\* line 40: translation.activate(lang)
language_activate(t) ==
    /\ pc[t] = "activate"
    /\ active' = lang[t]
    /\ pc' = [pc EXCEPT ![t] = "subject"]
    /\ UNCHANGED <<templates, context, cls, to, lang, old_language, subject,
                   body_html, body_txt, exc, email>>

\* lines 77-84, called at line 92
_render_message_subject(t) ==
    /\ pc[t] = "subject"
    /\ LET tpl == templates.subject
       IN  CASE tpl.state = "missing" ->
                  /\ exc' = [exc EXCEPT ![t] = "TemplateNotFound: subject"]
                  /\ pc' = [pc EXCEPT ![t] = "restore"]
                  /\ UNCHANGED subject
             [] tpl.state = "broken" ->
                  /\ exc' = [exc EXCEPT ![t] = "RenderError"]
                  /\ pc' = [pc EXCEPT ![t] = "restore"]
                  /\ UNCHANGED subject
             [] OTHER ->
                  /\ subject' = [subject EXCEPT ![t] = normalize_subject(tpl.out)]
                  /\ pc' = [pc EXCEPT ![t] = "body_html"]
                  /\ UNCHANGED exc
    /\ UNCHANGED <<active, templates, context, cls, to, lang, old_language,
                   body_html, body_txt, email>>

\* an HTML body render that raises for a missing template, as the subject does
_render_message_body_as_html_mut(t) ==
    /\ pc[t] = "body_html"
    /\ LET tpl == templates.html
       IN  IF tpl.state # "ok"
           THEN /\ exc' = [exc EXCEPT ![t] =
                      IF tpl.state = "missing" THEN "TemplateNotFound: html"
                      ELSE "RenderError"]
                /\ pc' = [pc EXCEPT ![t] = "restore"]
                /\ UNCHANGED body_html
           ELSE /\ body_html' = [body_html EXCEPT ![t] =
                      IF cls[t] = "InlineCSSTemplateMail" /\ ~Falsy(tpl.out)
                      THEN premailer_transform(tpl.out) ELSE tpl.out]
                /\ pc' = [pc EXCEPT ![t] = "body_txt"]
                /\ UNCHANGED exc
    /\ UNCHANGED <<active, templates, context, cls, to, lang, old_language,
                   subject, body_txt, email>>

\* lines 59-67 (and 124-130 for InlineCSSMixin), called at line 93
_render_message_body_as_html(t) ==
    /\ pc[t] = "body_html"
    /\ LET tpl == templates.html
           html == IF tpl.state = "missing" THEN None ELSE tpl.out
       IN  IF tpl.state = "broken"
           THEN /\ exc' = [exc EXCEPT ![t] = "RenderError"]
                /\ pc' = [pc EXCEPT ![t] = "restore"]
                /\ UNCHANGED body_html
           ELSE /\ body_html' = [body_html EXCEPT ![t] =
                      IF cls[t] = "InlineCSSTemplateMail" /\ ~Falsy(html)
                      THEN premailer_transform(html) ELSE html]
                /\ pc' = [pc EXCEPT ![t] = "body_txt"]
                /\ UNCHANGED exc
    /\ UNCHANGED <<active, templates, context, cls, to, lang, old_language,
                   subject, body_txt, email>>

\* lines 69-75, called at line 94
_render_message_body_as_txt(t) ==
    /\ pc[t] = "body_txt"
    /\ LET tpl == templates.text
       IN  IF tpl.state = "broken"
           THEN /\ exc' = [exc EXCEPT ![t] = "RenderError"]
                /\ UNCHANGED body_txt
           ELSE /\ body_txt' = [body_txt EXCEPT ![t] =
                      IF tpl.state = "missing" THEN None ELSE tpl.out]
                /\ UNCHANGED exc
    /\ pc' = [pc EXCEPT ![t] = "restore"]
    /\ UNCHANGED <<active, templates, context, cls, to, lang, old_language,
                   subject, body_html, email>>

\* a restore without try/finally: skipped when rendering raised
language_restore_mut(t) ==
    /\ pc[t] = "restore"
    /\ active' = IF exc[t] = None THEN old_language[t] ELSE active
    /\ pc' = [pc EXCEPT ![t] = IF exc[t] = None THEN "assemble" ELSE "raised"]
    /\ UNCHANGED <<templates, context, cls, to, lang, old_language, subject,
                   body_html, body_txt, exc, email>>

\* lines 42-43: finally: translation.activate(old_language)
language_restore(t) ==
    /\ pc[t] = "restore"
    /\ active' = old_language[t]
    /\ pc' = [pc EXCEPT ![t] = IF exc[t] = None THEN "assemble" ELSE "raised"]
    /\ UNCHANGED <<templates, context, cls, to, lang, old_language, subject,
                   body_html, body_txt, exc, email>>

\* a message builder that forgets the html subtype and swaps the two parts
build_email_mut(txt, html, to_list, subj) ==
    IF ~Falsy(txt) /\ ~Falsy(html)
    THEN [cls |-> "EmailMultiAlternatives", body |-> html,
          alternatives |-> << <<txt, "text/html">> >>,
          content_subtype |-> "plain", to |-> to_list, subject |-> subj,
          priority |-> None]
    ELSE [cls |-> "EmailMessage", body |-> IF Falsy(txt) THEN html ELSE txt,
          alternatives |-> <<>>,
          content_subtype |-> "plain", to |-> to_list, subject |-> subj,
          priority |-> None]

\* lines 99-116: the message built from the rendered bodies
build_email(txt, html, to_list, subj) ==
    IF ~Falsy(txt) /\ ~Falsy(html)
    THEN [cls |-> "EmailMultiAlternatives", body |-> txt,
          alternatives |-> << <<html, "text/html">> >>,
          content_subtype |-> "plain", to |-> to_list, subject |-> subj,
          priority |-> None]
    ELSE IF Falsy(txt) /\ ~Falsy(html)
    THEN [cls |-> "EmailMessage", body |-> html, alternatives |-> <<>>,
          content_subtype |-> "html", to |-> to_list, subject |-> subj,
          priority |-> None]
    ELSE [cls |-> "EmailMessage", body |-> txt, alternatives |-> <<>>,
          content_subtype |-> "plain", to |-> to_list, subject |-> subj,
          priority |-> None]

\* an emptiness test that looks at the text body only
assemble_mut(t) ==
    /\ pc[t] = "assemble"
    /\ IF Falsy(body_txt[t])
       THEN /\ exc' = [exc EXCEPT ![t] = "TemplateNotFound: empty body"]
            /\ pc' = [pc EXCEPT ![t] = "raised"]
            /\ UNCHANGED email
       ELSE /\ email' = [email EXCEPT ![t] =
                  build_email(body_txt[t], body_html[t], to[t], subject[t])]
            /\ pc' = [pc EXCEPT ![t] = "returned"]
            /\ UNCHANGED exc
    /\ UNCHANGED <<active, templates, context, cls, to, lang, old_language,
                   subject, body_html, body_txt>>

\* lines 96-116
assemble(t) ==
    /\ pc[t] = "assemble"
    /\ IF Falsy(body_txt[t]) /\ Falsy(body_html[t])
       THEN /\ exc' = [exc EXCEPT ![t] = "TemplateNotFound: empty body"]
            /\ pc' = [pc EXCEPT ![t] = "raised"]
            /\ UNCHANGED email
       ELSE /\ email' = [email EXCEPT ![t] =
                  build_email(body_txt[t], body_html[t], to[t], subject[t])]
            /\ pc' = [pc EXCEPT ![t] = "returned"]
            /\ UNCHANGED exc
    /\ UNCHANGED <<active, templates, context, cls, to, lang, old_language,
                   subject, body_html, body_txt>>

----------------------------------------------------------------------------
(* Initial states                                                          *)

ContextsWith(langs) ==
    {[k \in {"user"} |-> "u"]}
        \cup {[k \in {"user", "lang"} |-> IF k = "lang" THEN l ELSE "u"] : l \in langs}

FreshCalls ==
    [pc |-> [t \in Threads |-> "idle"],
     cls |-> [t \in Threads |-> None],
     to |-> [t \in Threads |-> <<>>],
     lang |-> [t \in Threads |-> None],
     old_language |-> [t \in Threads |-> None],
     subject |-> [t \in Threads |-> <<>>],
     body_html |-> [t \in Threads |-> None],
     body_txt |-> [t \in Threads |-> None],
     exc |-> [t \in Threads |-> None],
     email |-> [t \in Threads |-> NoEmail]]

InitCalls ==
    /\ pc = FreshCalls.pc
    /\ cls = FreshCalls.cls
    /\ to = FreshCalls.to
    /\ lang = FreshCalls.lang
    /\ old_language = FreshCalls.old_language
    /\ subject = FreshCalls.subject
    /\ body_html = FreshCalls.body_html
    /\ body_txt = FreshCalls.body_txt
    /\ exc = FreshCalls.exc
    /\ email = FreshCalls.email

InitBuilder ==
    /\ bpc = "idle"
    /\ b_to = <<>>
    /\ b_lang = None
    /\ counter = 0
    /\ to_by_lang = <<>>
    /\ email_by_lang = <<>>
    /\ iterated = {}
    /\ b_exc = None
    /\ b_email = NoEmail

NoArgs == [to |-> List(<<>>), lang |-> None]

----------------------------------------------------------------------------
(* Spec: one call of make_email_object (through make_email, lines 211-218) *)

ToArgs == {Scalar("a@x"), List(<<"a@x", "b@x">>)}

InitOneCall(subjects) ==
    /\ active \in {"en", "de"}
    /\ locale0 = active
    /\ templates \in [subject : SubjectTemplates(subjects),
                      html : BodyTemplates(HtmlTexts),
                      text : BodyTemplates(TxtTexts)]
    /\ \E c \in ContextsWith({None, "fr"}) :
          /\ context = [t \in Threads |-> c]
          /\ context0 = c
    /\ args0 = NoArgs
    /\ overlap = FALSE
    /\ InitCalls
    /\ InitBuilder

Init == InitOneCall(MainSubjects)

\* lines 211-218
make_email(t) ==
    /\ \E to_arg \in ToArgs : make_email_object(t, "TemplateMail", to_arg)
    /\ UNCHANGED <<builderVars, histVars>>

Steps(t) ==
    \/ language_get(t)
    \/ language_activate(t)
    \/ _render_message_subject(t)
    \/ _render_message_body_as_html(t)
    \/ _render_message_body_as_txt(t)
    \/ language_restore(t)
    \/ assemble(t)

Next ==
    \/ make_email(1)
    \/ Steps(1) /\ UNCHANGED <<builderVars, histVars>>

Spec == Init /\ [][Next]_vars

----------------------------------------------------------------------------
(* SpecSubject: one call, over every subject text up to MaxSubjectLen      *)

InitSubject ==
    /\ active = "en"
    /\ locale0 = active
    /\ templates \in [subject : SubjectTemplates(SubjectTexts(MaxSubjectLen)),
                      html : {Template("missing", ""), Template("ok", "<p>hi</p>")},
                      text : {Template("ok", "hi")}]
    /\ context = [t \in Threads |-> [k \in {"user"} |-> "u"]]
    /\ context0 = context[1]
    /\ args0 = NoArgs
    /\ overlap = FALSE
    /\ InitCalls
    /\ InitBuilder

SpecSubject == InitSubject /\ [][Next]_vars

----------------------------------------------------------------------------
(* SpecConc: calls of make_email_object by concurrent threads that share   *)
(* the active locale                                                       *)

InGuard == {"activate", "subject", "body_html", "body_txt", "restore"}

InitConc ==
    /\ active = "de"
    /\ locale0 = active
    /\ templates \in [subject : {Template("ok", <<"a">>)},
                      html : {Template("missing", ""), Template("broken", ""),
                              Template("ok", "<p>hi</p>")},
                      text : {Template("ok", "hi")}]
    /\ \E c1 \in ContextsWith({"fr"}) : \E c2 \in ContextsWith({"de"}) \ {c1} :
          context = [t \in Threads |-> IF t = 1 THEN c1 ELSE c2]
    /\ context0 = context[1]
    /\ args0 = NoArgs
    /\ overlap = FALSE
    /\ InitCalls
    /\ InitBuilder

NextConc ==
    \E t \in Threads :
        \/ make_email(t)
        \/ /\ Steps(t)
           /\ overlap' = (overlap \/ (pc[t] = "get_language"
                                       /\ \E u \in Threads \ {t} : pc[u] \in InGuard))
           /\ UNCHANGED <<builderVars, args0, locale0, context0>>

SpecConc == InitConc /\ [][NextConc]_vars

----------------------------------------------------------------------------
(* Recipients handed to the builders                                       *)

Str(address) == [kind |-> "str", email |-> address, lang |-> Absent]
Obj(address, language_) == [kind |-> "obj", email |-> address, lang |-> language_]

Recipients ==
    {Str("b@x"), Str(""), Obj("a@x", "fr"), Obj("b@x", Absent),
     Obj("c@x", "en"), Obj("b@x", ""), Obj(Absent, "fr"), Obj(None, None)}

RecipientLists(n) == UNION {[1..k -> Recipients] : k \in 0..n}

\* the frame of make_email_object is left: its locals are gone
ReturnToCaller ==
    /\ pc' = FreshCalls.pc
    /\ cls' = FreshCalls.cls
    /\ to' = FreshCalls.to
    /\ lang' = FreshCalls.lang
    /\ old_language' = FreshCalls.old_language
    /\ subject' = FreshCalls.subject
    /\ body_html' = FreshCalls.body_html
    /\ body_txt' = FreshCalls.body_txt
    /\ exc' = FreshCalls.exc
    /\ email' = FreshCalls.email

----------------------------------------------------------------------------
(* MagicMailBuilderV2._email_generator                                     *)

\* a getattr without the None default
_get_infos_mut(recipient) ==
    IF recipient.kind = "str" THEN <<recipient.email, None>>
    ELSE <<recipient.email, recipient.lang>>

\* lines 177-180: getattr(recipient, attr, None)
_get_infos(recipient) ==
    IF recipient.kind = "str" THEN <<recipient.email, None>>
    ELSE <<IF recipient.email = Absent THEN None ELSE recipient.email,
           IF recipient.lang = Absent THEN None ELSE recipient.lang>>

\* a key that ignores the recipient's own language
group_key_mut(lang_, default) == default

\* line 193: the key lang_ or lang
group_key(lang_, default) == IF Falsy(lang_) THEN default ELSE lang_

\* lines 182-188: entry
_email_generator ==
    /\ bpc = "idle"
    /\ b_to' = IF args0.to.kind = "list" THEN args0.to.v ELSE <<args0.to.v>>
    /\ b_lang' = dict_get(context[1], "lang", args0.lang)
    /\ to_by_lang' = <<>>
    /\ counter' = 0
    /\ bpc' = "group"
    /\ UNCHANGED <<active, templates, context, meoVars, email_by_lang,
                   iterated, b_exc, b_email, histVars>>

\* lines 189-193: one iteration of the grouping loop
group_recipient ==
    /\ bpc = "group"
    /\ counter < Len(b_to)
    /\ LET infos == _get_infos(b_to[counter + 1])
           address == infos[1]
           key == group_key(infos[2], b_lang)
       IN  IF Falsy(address)
           THEN /\ b_exc' = "AttributeError"
                /\ bpc' = "raised"
                /\ UNCHANGED <<to_by_lang, counter>>
           ELSE /\ to_by_lang' = dict_set(to_by_lang, key,
                                    Append(dict_get(to_by_lang, key, <<>>), address))
                /\ counter' = counter + 1
                /\ UNCHANGED <<b_exc, bpc>>
    /\ UNCHANGED <<active, templates, context, meoVars, b_to, b_lang,
                   email_by_lang, iterated, b_email, histVars>>

\* line 196: the grouping loop is over
group_done ==
    /\ bpc = "group"
    /\ counter = Len(b_to)
    /\ email_by_lang' = <<>>
    /\ iterated' = {}
    /\ bpc' = "items"
    /\ UNCHANGED <<active, templates, context, meoVars, b_to, b_lang, counter,
                   to_by_lang, b_exc, b_email, histVars>>

\* a context update without the pop
group_context_mut(ctx, key) ==
    IF key # None THEN dict_set(ctx, "lang", key) ELSE ctx

\* lines 198-200: the context's 'lang' for the group
group_context(ctx, key) ==
    IF key # None THEN dict_set(dict_pop(ctx, "lang"), "lang", key)
    ELSE dict_pop(ctx, "lang")

\* lines 197-200: the next (lang, to) of to_by_lang.items(), in any order
next_language ==
    /\ bpc = "items"
    /\ \E key \in DOMAIN to_by_lang \ iterated :
          /\ b_lang' = key
          /\ b_to' = to_by_lang[key]
          /\ iterated' = iterated \cup {key}
          /\ context' = [context EXCEPT ![1] = group_context(context[1], key)]
    /\ bpc' = "make"
    /\ UNCHANGED <<active, templates, meoVars, counter, to_by_lang,
                   email_by_lang, b_exc, b_email, histVars>>

\* lines 201-202: template_email.make_email_object(to, context)
v2_make_email_object ==
    /\ bpc = "make"
    /\ make_email_object(1, "InlineCSSTemplateMail", List(b_to))
    /\ bpc' = "in_call"
    /\ UNCHANGED <<b_to, b_lang, counter, to_by_lang, email_by_lang, iterated,
                   b_exc, b_email, histVars>>

\* lines 203-204: the message is stored under its language
store_email ==
    /\ bpc = "in_call"
    /\ pc[1] = "returned"
    /\ email_by_lang' = dict_set(email_by_lang, b_lang,
                            [email[1] EXCEPT !.priority = PRIORITY_STANDARD])
    /\ ReturnToCaller
    /\ bpc' = "items"
    /\ UNCHANGED <<active, templates, context, b_to, b_lang, counter,
                   to_by_lang, iterated, b_exc, b_email, histVars>>

\* an exception of make_email_object leaves the builder call
propagate ==
    /\ bpc = "in_call"
    /\ pc[1] = "raised"
    /\ b_exc' = exc[1]
    /\ ReturnToCaller
    /\ bpc' = "raised"
    /\ UNCHANGED <<active, templates, context, b_to, b_lang, counter,
                   to_by_lang, email_by_lang, iterated, b_email, histVars>>

\* line 205: return email_by_lang
v2_return ==
    /\ bpc = "items"
    /\ iterated = DOMAIN to_by_lang
    /\ bpc' = "returned"
    /\ UNCHANGED <<active, templates, context, meoVars, b_to, b_lang, counter,
                   to_by_lang, email_by_lang, iterated, b_exc, b_email, histVars>>

V2Templates ==
    [subject : {Template("ok", <<"a">>)},
     html : {Template("missing", ""), Template("ok", "<p>hi</p>")},
     text : {Template("missing", ""), Template("ok", "hi")}]

InitV2 ==
    /\ active = "de"
    /\ locale0 = active
    /\ templates \in V2Templates
    /\ \E c \in ContextsWith({None, "en"}) :
          /\ context = [t \in Threads |-> c]
          /\ context0 = c
    /\ args0 \in [to : {List(l) : l \in RecipientLists(MaxTo)}
                         \cup {Scalar(r) : r \in Recipients},
                  lang : {None, "de"}]
    /\ overlap = FALSE
    /\ InitCalls
    /\ InitBuilder

NextV2 ==
    \/ _email_generator
    \/ group_recipient
    \/ group_done
    \/ next_language
    \/ v2_make_email_object
    \/ Steps(1) /\ UNCHANGED <<builderVars, histVars>>
    \/ store_email
    \/ propagate
    \/ v2_return

SpecV2 == InitV2 /\ [][NextV2]_vars

----------------------------------------------------------------------------
(* MagicMailBuilder.__getattr__(name)(to, context): facade v1              *)

\* line 148: isinstance(to, string_types)
is_string(to_arg) == to_arg.kind = "scalar" /\ to_arg.v.kind = "str"

\* line 149: hasattr(to, self._email_attr)
has_email_attr(to_arg) ==
    to_arg.kind = "scalar" /\ to_arg.v.kind = "obj" /\ to_arg.v.email # Absent

\* a context that never receives the recipient's language
v1_context_mut(ctx, language_) == ctx

\* lines 157-158: if lang is not None: context['lang'] = lang
v1_context(ctx, language_) ==
    IF language_ # None THEN dict_set(ctx, "lang", language_) ELSE ctx

\* lines 145-158
_dynamic_email_generator ==
    /\ bpc = "idle"
    /\ IF ~is_string(args0.to) /\ ~has_email_attr(args0.to)
       THEN /\ b_exc' = "AttributeError"
            /\ bpc' = "raised"
            /\ UNCHANGED <<b_lang, b_to, context>>
       ELSE LET language_ ==
                    IF is_string(args0.to) \/ args0.to.v.lang = Absent
                    THEN None ELSE args0.to.v.lang
            IN  /\ b_lang' = language_
                /\ b_to' = args0.to.v.email
                /\ context' = [context EXCEPT ![1] = v1_context(context[1], language_)]
                /\ bpc' = "make"
                /\ UNCHANGED b_exc
    /\ UNCHANGED <<active, templates, meoVars, counter, to_by_lang,
                   email_by_lang, iterated, b_email, histVars>>

\* lines 160-161: template_email.make_email_object(to, context)
v1_make_email_object ==
    /\ bpc = "make"
    /\ make_email_object(1, "TemplateMail", Scalar(b_to))
    /\ bpc' = "in_call"
    /\ UNCHANGED <<b_to, b_lang, counter, to_by_lang, email_by_lang, iterated,
                   b_exc, b_email, histVars>>

\* lines 162-163: email_instance.priority = priority; return email_instance
v1_return ==
    /\ bpc = "in_call"
    /\ pc[1] = "returned"
    /\ b_email' = [email[1] EXCEPT !.priority = PRIORITY_STANDARD]
    /\ bpc' = "returned"
    /\ UNCHANGED <<active, templates, context, meoVars, b_to, b_lang, counter,
                   to_by_lang, email_by_lang, iterated, b_exc, histVars>>

\* an exception of make_email_object leaves the builder call
v1_propagate ==
    /\ bpc = "in_call"
    /\ pc[1] = "raised"
    /\ b_exc' = exc[1]
    /\ bpc' = "raised"
    /\ UNCHANGED <<active, templates, context, meoVars, b_to, b_lang, counter,
                   to_by_lang, email_by_lang, iterated, b_email, histVars>>

InitV1 ==
    /\ active \in {"en", "de"}
    /\ locale0 = active
    /\ templates \in [subject : SubjectTemplates({<<"a">>}),
                      html : {Template("missing", ""), Template("ok", "<p>hi</p>")},
                      text : {Template("missing", ""), Template("ok", "hi")}]
    /\ \E c \in ContextsWith({None, "fr"}) :
          /\ context = [t \in Threads |-> c]
          /\ context0 = c
    /\ args0 \in [to : {List(l) : l \in RecipientLists(MaxV1To)}
                         \cup {Scalar(r) : r \in Recipients},
                  lang : {None}]
    /\ overlap = FALSE
    /\ InitCalls
    /\ InitBuilder

NextV1 ==
    \/ _dynamic_email_generator
    \/ v1_make_email_object
    \/ Steps(1) /\ UNCHANGED <<builderVars, histVars>>
    \/ v1_return
    \/ v1_propagate

SpecV1 == InitV1 /\ [][NextV1]_vars

----------------------------------------------------------------------------
(* Properties of make_email_object                                         *)

Terminal == {"returned", "raised"}
Rendering == {"subject", "body_html", "body_txt"}
BodyKinds == {"html", "text"}

\* the language make_email_object is asked for by its context
Resolved(ctx) ==
    IF "lang" \in DOMAIN ctx /\ ctx["lang"] \notin {None, ""}
    THEN ctx["lang"] ELSE LANGUAGE_CODE

IsMultipart(m, txt, html) ==
    /\ m.cls = "EmailMultiAlternatives"
    /\ m.body = txt
    /\ m.alternatives = << <<html, "text/html">> >>

IsSingleHtml(m, html) ==
    /\ m.cls = "EmailMessage"
    /\ m.content_subtype = "html"
    /\ m.body = html
    /\ m.alternatives = <<>>

IsSinglePlain(m, txt) ==
    /\ m.cls = "EmailMessage"
    /\ m.content_subtype = "plain"
    /\ m.body = txt
    /\ m.alternatives = <<>>

\* C1: the shape of the message is decided by which of the two rendered
\* bodies is non-empty: both -> multipart alternative (text body, HTML the
\* single text/html alternative); HTML only -> single html message; text
\* only -> single plain message; neither -> no message and the empty-body
\* TemplateNotFound.  No message is returned with both bodies empty.
C1_ShapeFromBodies ==
    \A t \in Threads :
        LET txt == ~Falsy(body_txt[t])
            html == ~Falsy(body_html[t])
            m == email[t]
        IN  /\ pc[t] = "returned" =>
                /\ txt \/ html
                /\ (txt /\ html) => IsMultipart(m, body_txt[t], body_html[t])
                /\ (~txt /\ html) => IsSingleHtml(m, body_html[t])
                /\ (txt /\ ~html) => IsSinglePlain(m, body_txt[t])
            /\ (pc[t] = "raised" /\ exc[t] = "TemplateNotFound: empty body") =>
                ~txt /\ ~html /\ m = NoEmail
            /\ (pc[t] \in Terminal /\ ~txt /\ ~html
                  /\ exc[t] \notin {"TemplateNotFound: subject", "RenderError"}) =>
                pc[t] = "raised" /\ exc[t] = "TemplateNotFound: empty body"

C1_Witness ==
    /\ pc[1] = "returned"
    /\ email[1].cls = "EmailMultiAlternatives"
    /\ email[1].alternatives = << <<"<p>hi</p>", "text/html">> >>

Exists(k) == templates[k].state # "missing"
RendersNonEmpty(k) == templates[k].state = "ok" /\ templates[k].out # ""
NothingBroken ==
    /\ templates.subject.state = "ok"
    /\ \A k \in BodyKinds : templates[k].state # "broken"

\* C2 as stated: the shape follows from which body template files exist,
\* whatever they render to.
C2_ShapeFromExistence ==
    (pc[1] \in Terminal /\ NothingBroken) =>
        /\ (Exists("text") /\ Exists("html")) =>
              pc[1] = "returned" /\ email[1].cls = "EmailMultiAlternatives"
        /\ (Exists("text") /\ ~Exists("html")) =>
              pc[1] = "returned" /\ email[1].cls = "EmailMessage"
                                 /\ email[1].content_subtype = "plain"
        /\ (~Exists("text") /\ Exists("html")) =>
              pc[1] = "returned" /\ email[1].cls = "EmailMessage"
                                 /\ email[1].content_subtype = "html"
        /\ (~Exists("text") /\ ~Exists("html")) =>
              pc[1] = "raised" /\ exc[1] = "TemplateNotFound: empty body"

\* C2 amended: the shape follows from which body templates exist and render
\* to a non-empty text; a body template that renders to the empty text
\* counts like a missing one.
C2_ShapeFromNonEmptyTemplates ==
    (pc[1] \in Terminal /\ NothingBroken) =>
        LET txt == RendersNonEmpty("text")
            html == RendersNonEmpty("html")
        IN  /\ (txt /\ html) =>
                  pc[1] = "returned"
                  /\ IsMultipart(email[1], templates.text.out, templates.html.out)
            /\ (txt /\ ~html) =>
                  pc[1] = "returned" /\ IsSinglePlain(email[1], templates.text.out)
            /\ (~txt /\ html) =>
                  pc[1] = "returned" /\ IsSingleHtml(email[1], templates.html.out)
            /\ (~txt /\ ~html) =>
                  pc[1] = "raised" /\ exc[1] = "TemplateNotFound: empty body"
                  /\ email[1] = NoEmail

C2_Witness ==
    /\ pc[1] = "returned"
    /\ templates.html = Template("ok", "")
    /\ templates.text = Template("ok", "hi")
    /\ IsSinglePlain(email[1], "hi")

\* C3: in a single-threaded call the locale active after the call is the one
\* active before it, on every exit path (return, missing subject, another
\* exception while rendering, empty body), and while the subject and the
\* bodies are rendered the active locale is the resolved language.
C3_LocaleRestored ==
    /\ pc[1] \in Terminal => active = locale0
    /\ pc[1] \in Rendering => active = Resolved(context[1])

C3_Witness ==
    /\ pc[1] = "raised"
    /\ exc[1] = "RenderError"
    /\ lang[1] # locale0
    /\ active = locale0

\* C7: the subject is mandatory and rendered first: when its template is
\* missing the call raises TemplateNotFound and no body is rendered.  A
\* missing body template is an absent variant and never fails the call: the
\* call returns whenever the subject renders and the other body renders
\* non-empty.
C7_SubjectMandatoryBodiesOptional ==
    /\ templates.subject.state = "missing" =>
          /\ pc[1] \notin {"body_html", "body_txt", "assemble", "returned"}
          /\ body_html[1] = None /\ body_txt[1] = None
          /\ pc[1] = "raised" => exc[1] = "TemplateNotFound: subject"
    /\ exc[1] = "TemplateNotFound: subject" => templates.subject.state = "missing"
    /\ (templates.html.state = "missing" /\ pc[1] = "body_txt") =>
          body_html[1] = None /\ exc[1] = None
    /\ \A k \in BodyKinds : \A o \in BodyKinds \ {k} :
          (/\ templates.subject.state = "ok"
           /\ templates[k].state = "missing"
           /\ RendersNonEmpty(o)
           /\ pc[1] \in Terminal) =>
              pc[1] = "returned" /\ exc[1] = None /\ email[1].body = templates[o].out

C7_Witness ==
    /\ pc[1] = "returned"
    /\ templates.html.state = "missing"
    /\ email[1].body = "hi"

\* C9: the subject of an assembled message is the rendered subject with
\* whitespace normalized: no leading or trailing whitespace, every run of
\* whitespace replaced by exactly one space, the same words in the same
\* order, and normalizing it again changes nothing.
C9_SubjectNormalized ==
    pc[1] = "returned" =>
        LET s == email[1].subject
            raw == templates.subject.out
            n == Len(s)
        IN  /\ n > 0 => s[1] \notin Whitespace /\ s[n] \notin Whitespace
            /\ \A i \in 1..n :
                  s[i] \in Whitespace =>
                      s[i] = " " /\ i < n /\ s[i + 1] \notin Whitespace
            /\ split(s) = split(raw)
            /\ SelectSeq(s, LAMBDA c : c \notin Whitespace)
                  = SelectSeq(raw, LAMBDA c : c \notin Whitespace)
            /\ Len(split(raw)) > 0 =>
                  Len(SelectSeq(s, LAMBDA c : c = " ")) = Len(split(raw)) - 1
            /\ normalize_subject(s) = s

C9_Witness ==
    /\ pc[1] = "returned"
    /\ templates.subject.out = <<"\n", "a", "\t", "b">>
    /\ email[1].subject = <<"a", " ", "b">>

----------------------------------------------------------------------------
(* Properties of concurrent calls                                          *)

\* C4 as stated: in any interleaving of calls that share the active locale
\* each call renders under its own language and, once all calls have
\* finished, the active locale is the one active before the first call.
C4_NoLeakAnyInterleaving ==
    /\ \A t \in Threads : pc[t] \in Rendering => active = Resolved(context[t])
    /\ (\A t \in Threads : pc[t] \in Terminal) => active = locale0

\* C4 amended: the same holds as long as no two language() scopes have
\* overlapped in time, that is, when the calls are serialized.
C4_NoLeakWhenSerialized ==
    ~overlap => C4_NoLeakAnyInterleaving

C4_Witness ==
    /\ ~overlap
    /\ \A t \in Threads : pc[t] = "returned"
    /\ lang[1] # lang[2]
    /\ lang[1] # locale0 /\ lang[2] # locale0
    /\ active = locale0

----------------------------------------------------------------------------
(* Properties of MagicMailBuilderV2._email_generator                       *)

\* the recipients as the caller passed them
Rcpts == IF args0.to.kind = "list" THEN args0.to.v ELSE <<args0.to.v>>

YieldsAddress(r) == r.email \notin {Absent, None, ""}
AllYieldAddress == \A i \in 1..Len(Rcpts) : YieldsAddress(Rcpts[i])
FirstWithoutAddress ==
    CHOOSE i \in 1..Len(Rcpts) :
        /\ ~YieldsAddress(Rcpts[i])
        /\ \A j \in 1..(i - 1) : YieldsAddress(Rcpts[j])

\* own language, else the context's 'lang', else the default
EffectiveLang(r) ==
    IF r.kind = "obj" /\ r.lang \notin {Absent, None, ""} THEN r.lang
    ELSE IF "lang" \in DOMAIN context0 THEN context0["lang"]
    ELSE args0.lang

AddressesUnder(k) ==
    LET sel == SelectSeq(Rcpts, LAMBDA r : EffectiveLang(r) = k)
    IN  [i \in 1..Len(sel) |-> sel[i].email]

\* C5: when every recipient yields an address the returned mapping has
\* exactly one entry per distinct effective language, keyed by it, and the
\* message of each entry is addressed to exactly the addresses of the
\* recipients of that language, in their original order.
C5_PartitionByLanguage ==
    /\ AllYieldAddress => b_exc # "AttributeError"
    /\ (bpc = "returned" /\ AllYieldAddress) =>
          /\ DOMAIN email_by_lang = {EffectiveLang(Rcpts[i]) : i \in 1..Len(Rcpts)}
          /\ \A k \in DOMAIN email_by_lang :
                /\ email_by_lang[k].to = AddressesUnder(k)
                /\ email_by_lang[k].priority = PRIORITY_STANDARD

C5_Witness ==
    /\ bpc = "returned"
    /\ args0.to = List(<<Obj("a@x", "fr"), Str("b@x")>>)
    /\ "lang" \in DOMAIN context0 /\ context0["lang"] = "en"
    /\ DOMAIN email_by_lang = {"fr", "en"}
    /\ email_by_lang["fr"].to = <<"a@x">>
    /\ email_by_lang["en"].to = <<"b@x">>

\* C6: when some recipient yields no address the call raises AttributeError
\* for the index of the first such recipient, before any message is
\* assembled: nothing is rendered, the locale is never switched, the context
\* is not modified and no mapping is returned.
C6_BadRecipientFailsFirst ==
    ~AllYieldAddress =>
        /\ bpc \in {"idle", "group", "raised"}
        /\ counter < FirstWithoutAddress
        /\ bpc = "raised" =>
              b_exc = "AttributeError" /\ counter = FirstWithoutAddress - 1
        /\ pc[1] = "idle"
        /\ active = locale0
        /\ context[1] = context0
        /\ email_by_lang = <<>>

C6_Witness ==
    /\ bpc = "raised"
    /\ b_exc = "AttributeError"
    /\ counter = 2
    /\ Len(Rcpts) = 3
    /\ DOMAIN to_by_lang # {}

\* C10: while a group's message is assembled the context's 'lang' is that
\* group's key, and for the group keyed None the context has no 'lang' at
\* all, so it is rendered under settings.LANGUAGE_CODE.  On return the
\* context keeps the 'lang' of the last group; every other key is unchanged.
C10_NoLeakThroughContext ==
    /\ (bpc = "in_call" /\ pc[1] # "idle") =>
          /\ to[1] = to_by_lang[dict_get(context[1], "lang", None)]
          /\ dict_get(context[1], "lang", None) = b_lang
          /\ b_lang = None =>
                /\ "lang" \notin DOMAIN context[1]
                /\ lang[1] = LANGUAGE_CODE
                /\ pc[1] \in Rendering => active = LANGUAGE_CODE
          /\ pc[1] \in Rendering => active = Resolved(context[1])
    /\ (bpc = "returned" /\ iterated # {}) =>
          IF b_lang = None THEN "lang" \notin DOMAIN context[1]
          ELSE "lang" \in DOMAIN context[1] /\ context[1]["lang"] = b_lang
    /\ DOMAIN context[1] \ {"lang"} = DOMAIN context0 \ {"lang"}
    /\ \A k \in DOMAIN context0 \ {"lang"} : context[1][k] = context0[k]

C10_Witness ==
    /\ bpc = "in_call"
    /\ pc[1] = "body_html"
    /\ b_lang = None
    /\ "fr" \in iterated
    /\ active = "en"
    /\ locale0 # "en"

----------------------------------------------------------------------------
(* Properties of facade v1                                                 *)

SomeBodyRenders ==
    /\ templates.subject.state = "ok"
    /\ \E k \in BodyKinds : RendersNonEmpty(k)

V1Lang(r) ==
    IF r.kind = "obj" /\ r.lang \notin {Absent, None}
    THEN (IF r.lang = "" THEN LANGUAGE_CODE ELSE r.lang)
    ELSE Resolved(context0)

====
